---- MODULE Spec2Model ----
(***************************************************************************)
(* Model of the Digest convenience trait (digest/src/digest.rs): the       *)
(* facade over Input + FixedOutput + Default, its one-shot helpers and the *)
(* 1 KB block read loop of digest_reader.                                  *)
(***************************************************************************)
EXTENDS Integers, Sequences, FiniteSets, TLC

\* ------------------------------------------------------------------ bounds
MaxInputs == 2      \* input() calls made on one hand-driven hasher instance
MaxResults == 2     \* result() calls made on one hand-driven hasher instance
MaxDataLen == 2     \* length of the byte slices given to digest()
MaxTextLen == 2     \* number of chars of the strings given to input_str()
MaxReads == 3       \* number of read() calls a source is scripted for

\* --------------------------------------------------------------- constants
BufSize == 1024     \* let mut buffer = [0u8; 1024]

\* ------------------------------------------------------------------ values
SampleBytes == {0, 255}

RECURSIVE SeqsUpTo(_, _)
SeqsUpTo(S, n) ==
    IF n = 0 THEN {<<>>}
    ELSE LET shorter == SeqsUpTo(S, n - 1)
         IN  shorter \cup {Append(s, x) : s \in {t \in shorter : Len(t) = n - 1}, x \in S}

Datas == SeqsUpTo(SampleBytes, MaxDataLen)

\* buffers handed to input() on a hand-driven instance
InputBufs == Datas

RECURSIVE Concat(_)
Concat(ss) == IF Len(ss) = 0 THEN <<>> ELSE Head(ss) \o Concat(Tail(ss))

\* ------------------------------------------------- the hasher capabilities
\* A hasher type fixes the output length (FixedOutput::OutputSize) and what
\* fixed_result leaves behind in the instance it was called on.
OutputSizes == {2, 4}
HasherTypes == [OutputSize : OutputSizes, reuse : {"reset", "keep"}]

\* Default::default(): the initial state of a hasher
Default == [n |-> 0, s |-> 0]

\* Input::process: absorbs the bytes of buf in order. A toy checksum modulo
\* 251: n counts the bytes absorbed, s sums each byte (plus one) weighted by
\* its position in the whole input. Absorbing x then y is absorbing x \o y,
\* and an empty buffer changes nothing. The sum over buf[lo..hi] is taken
\* by halves.
RECURSIVE WeightedSum(_, _, _, _)
WeightedSum(buf, lo, hi, before) ==
    IF lo > hi THEN 0
    ELSE IF lo = hi THEN ((((before + lo) % 251) + 1) * (buf[lo] + 1)) % 251
    ELSE (WeightedSum(buf, lo, (lo + hi) \div 2, before)
            + WeightedSum(buf, (lo + hi) \div 2 + 1, hi, before)) % 251

absorb(h, buf) ==
    [n |-> (h.n + Len(buf)) % 251,
     s |-> (h.s + WeightedSum(buf, 1, Len(buf), h.n)) % 251]

\* (buf is bound to its value once, then summed)
process(h, buf) == CHOOSE after \in {absorb(h, bytes) : bytes \in {buf}} : TRUE

\* FixedOutput::fixed_result(&mut self): the output, and the instance after
fixed_result(T, h) ==
    [out |-> [i \in 1..T.OutputSize |->
                 ((IF i % 2 = 1 THEN h.s ELSE h.n) + 17 * ((i - 1) \div 2)) % 256],
     h   |-> IF T.reuse = "reset" THEN Default ELSE h]

\* ------------------------------------------------------- the Digest facade
new == Default

input(h, buf) == process(h, buf)

result(T, h) == fixed_result(T, h)

\* (variant: the size in bits)
output_size_bits(T) == T.OutputSize * 8

output_size(T) == T.OutputSize

\* (variant: the data is never fed)
digest_no_input(T, data) ==
    LET hasher0 == Default
    IN  fixed_result(T, hasher0).out

\* (variant: a terminator byte is fed after the data)
digest_padded(T, data) ==
    LET hasher0 == Default
        hasher1 == input(input(hasher0, data), <<128>>)
    IN  fixed_result(T, hasher1).out

digest(T, data) ==
    LET hasher0 == Default
        hasher1 == input(hasher0, data)
    IN  fixed_result(T, hasher1).out

\* str::as_bytes(): a str holds the UTF-8 encoding of its chars (Unicode
\* scalar values); each char takes one to four bytes
encode_utf8(code) ==
    IF code < 128 THEN <<code>>
    ELSE IF code < 2048 THEN
        <<((code \div 64) % 32) + 192, (code % 64) + 128>>
    ELSE IF code < 65536 THEN
        <<((code \div 4096) % 16) + 224, ((code \div 64) % 64) + 128, (code % 64) + 128>>
    ELSE
        <<((code \div 262144) % 8) + 240, ((code \div 4096) % 64) + 128,
          ((code \div 64) % 64) + 128, (code % 64) + 128>>

RECURSIVE as_bytes(_)
as_bytes(str) ==
    IF Len(str) = 0 THEN <<>> ELSE encode_utf8(Head(str)) \o as_bytes(Tail(str))

\* (variant: each char cut to its low byte instead of encoded)
input_str_low_bytes(T, str) == digest(T, [i \in 1..Len(str) |-> str[i] % 256])

input_str(T, str) == digest(T, as_bytes(str))

\* chars at both ends of each encoded length
SampleChars == {97, 127, 128, 233, 2047, 2048, 8364, 65535, 65536, 128512, 1114111}
Texts == SeqsUpTo(SampleChars, MaxTextLen)

\* ------------------------------------------------------------ the io::Read
\* What one read() call of a source does: Ok(n) after writing n <= BufSize
\* bytes to the front of the buffer, or Err(e).
Full(b) == [i \in 1..BufSize |-> b]
Chunks == {<<>>, <<97, 98>>, <<99, 100>>, Full(120)}
Errors == {"Interrupted", "Other"}
OkRead(data) == [kind |-> "Ok", data |-> data, err |-> "none"]
ErrRead(e) == [kind |-> "Err", data |-> <<>>, err |-> e]
Reads == {OkRead(c) : c \in Chunks} \cup {ErrRead(e) : e \in Errors}
Sources == SeqsUpTo(Reads, MaxReads) \ {<<>>}

\* one source of each shape: what a read delivers decides the control flow
\* only by being non-empty, empty or an error
ShapeReads == {OkRead(<<97, 98>>), OkRead(Full(120)), OkRead(<<>>), ErrRead("Other")}
ShapeSources == SeqsUpTo(ShapeReads, MaxReads) \ {<<>>}

\* source.read(&mut buffer): the buffer after a read that wrote data
read_into(buf, data) ==
    [i \in 1..Len(buf) |-> IF i <= Len(data) THEN data[i] ELSE buf[i]]

\* (variant: the whole buffer)
slice_full(buf, n) == buf

\* &buffer[..bytes_read]
slice_to(buf, n) == SubSeq(buf, 1, n)

\* -------------------------------------------------------------------- state
VARIABLES
    T,            \* the hasher type D the facade is used with
    pc,           \* where the caller is: idle, holding a hasher, or in digest_reader
    hasher,       \* the hasher instance in use
    log,          \* buffers given to input() since construction or the last result
    fed,          \* the buffers the last result() covered
    nResult,      \* result() calls made on the instance
    nInput,       \* input() calls made on the instance
    op,           \* the facade function last called
    arg,          \* its byte argument
    text,         \* its string argument
    out,          \* what it returned
    source,       \* the reads the source of digest_reader is going to answer
    srcPos,       \* how many of them were made
    buffer,       \* digest_reader's buffer
    bytes_read    \* digest_reader's bytes_read

vars == <<T, pc, hasher, log, fed, nResult, nInput, op, arg, text, out,
          source, srcPos, buffer, bytes_read>>

NoOut == [kind |-> "None", val |-> <<>>, err |-> "none"]
Ok(v) == [kind |-> "Ok", val |-> v, err |-> "none"]
Err(e) == [kind |-> "Err", val |-> <<>>, err |-> e]

Init ==
    /\ T \in HasherTypes
    /\ pc = "idle"
    /\ hasher = Default
    /\ log = <<>>
    /\ fed = <<>>
    /\ nResult = 0
    /\ nInput = 0
    /\ op = "none"
    /\ arg = <<>>
    /\ text = <<>>
    /\ out = NoOut
    /\ source = <<>>
    /\ srcPos = 0
    /\ buffer = <<>>
    /\ bytes_read = 0

readerVars == <<source, srcPos, buffer, bytes_read>>

\* ---------------------------------------------- a hasher driven by the caller
\* let mut h = D::new();
New ==
    /\ pc = "idle"
    /\ pc' = "hasher"
    /\ hasher' = new
    /\ log' = <<>>
    /\ fed' = <<>>
    /\ nResult' = 0
    /\ nInput' = 0
    /\ op' = "new"
    /\ arg' = <<>>
    /\ text' = <<>>
    /\ out' = NoOut
    /\ UNCHANGED <<T, readerVars>>

\* h.input(buf);
Input(buf) ==
    /\ pc = "hasher"
    /\ nInput < MaxInputs
    /\ hasher' = input(hasher, buf)
    /\ log' = Append(log, buf)
    /\ nInput' = nInput + 1
    /\ op' = "input"
    /\ UNCHANGED <<T, pc, fed, nResult, arg, text, out, readerVars>>

\* let r = h.result();
Result ==
    /\ pc = "hasher"
    /\ nResult < MaxResults
    /\ LET r == result(T, hasher)
       IN  /\ out' = Ok(r.out)
           /\ hasher' = r.h
    /\ fed' = log
    /\ log' = <<>>
    /\ nResult' = nResult + 1
    /\ op' = "result"
    /\ UNCHANGED <<T, pc, nInput, arg, text, readerVars>>

\* the instance goes out of scope
Drop ==
    /\ pc = "hasher"
    /\ pc' = "idle"
    /\ hasher' = Default
    /\ log' = <<>>
    /\ fed' = <<>>
    /\ nResult' = 0
    /\ nInput' = 0
    /\ op' = "none"
    /\ out' = NoOut
    /\ UNCHANGED <<T, arg, text, readerVars>>

\* ------------------------------------------------------- the one-shot calls
\* D::digest(data)
Digest(data) ==
    /\ pc = "idle"
    /\ pc' = "returned"
    /\ out' = Ok(digest(T, data))
    /\ op' = "digest"
    /\ arg' = data
    /\ text' = <<>>
    /\ UNCHANGED <<T, hasher, log, fed, nResult, nInput, readerVars>>

\* D::input_str(str)
InputStr(str) ==
    /\ pc = "idle"
    /\ pc' = "returned"
    /\ out' = Ok(input_str(T, str))
    /\ op' = "input_str"
    /\ arg' = <<>>
    /\ text' = str
    /\ UNCHANGED <<T, hasher, log, fed, nResult, nInput, readerVars>>

\* the caller is done with the output of a one-shot call
Forget ==
    /\ pc = "returned"
    /\ pc' = "idle"
    /\ op' = "none"
    /\ arg' = <<>>
    /\ text' = <<>>
    /\ out' = NoOut
    /\ UNCHANGED <<T, hasher, log, fed, nResult, nInput, readerVars>>

\* ------------------------------------------------------------ digest_reader
\* D::digest_reader(&mut source): let mut hasher = Self::default();
\* let mut buffer = [0u8; 1024];
ReaderStart(src) ==
    /\ pc = "idle"
    /\ pc' = "read"
    /\ hasher' = Default
    /\ buffer' = [i \in 1..BufSize |-> 0]
    /\ bytes_read' = 0
    /\ source' = src
    /\ srcPos' = 0
    /\ log' = <<>>
    /\ fed' = <<>>
    /\ nResult' = 0
    /\ nInput' = 0
    /\ op' = "digest_reader"
    /\ arg' = <<>>
    /\ text' = <<>>
    /\ out' = NoOut
    /\ UNCHANGED T

\* (variant: a failed read is tried again)
ReaderRead_retry ==
    /\ pc = "read"
    /\ srcPos < Len(source)
    /\ srcPos' = srcPos + 1
    /\ LET r == source[srcPos + 1]
       IN  IF r.kind = "Err"
           THEN /\ pc' = "read"
                /\ UNCHANGED <<out, buffer, bytes_read>>
           ELSE /\ pc' = "input"
                /\ buffer' = read_into(buffer, r.data)
                /\ bytes_read' = Len(r.data)
                /\ UNCHANGED out
    /\ UNCHANGED <<T, hasher, log, fed, nResult, nInput, op, arg, text, source>>

\* let bytes_read = source.read(&mut buffer)?;
ReaderRead ==
    /\ pc = "read"
    /\ srcPos < Len(source)
    /\ srcPos' = srcPos + 1
    /\ LET r == source[srcPos + 1]
       IN  IF r.kind = "Err"
           THEN /\ pc' = "done"
                /\ out' = Err(r.err)
                /\ UNCHANGED <<buffer, bytes_read>>
           ELSE /\ pc' = "input"
                /\ buffer' = read_into(buffer, r.data)
                /\ bytes_read' = Len(r.data)
                /\ UNCHANGED out
    /\ UNCHANGED <<T, hasher, log, fed, nResult, nInput, op, arg, text, source>>

\* (variant: the empty slice of the last read is not fed)
ReaderInput_skip_empty ==
    /\ pc = "input"
    /\ pc' = "test"
    /\ IF bytes_read = 0
       THEN UNCHANGED <<hasher, log, nInput>>
       ELSE /\ hasher' = input(hasher, slice_to(buffer, bytes_read))
            /\ log' = Append(log, slice_to(buffer, bytes_read))
            /\ nInput' = nInput + 1
    /\ UNCHANGED <<T, fed, nResult, op, arg, text, out, readerVars>>

\* hasher.input(&buffer[..bytes_read]);
ReaderInput ==
    /\ pc = "input"
    /\ pc' = "test"
    /\ hasher' = input(hasher, slice_to(buffer, bytes_read))
    /\ log' = Append(log, slice_to(buffer, bytes_read))
    /\ nInput' = nInput + 1
    /\ UNCHANGED <<T, fed, nResult, op, arg, text, out, readerVars>>

\* (variant: a zero-byte read ends the loop only if the source has no more)
ReaderTest_zero_not_final ==
    /\ pc = "test"
    /\ pc' = IF bytes_read = 0 /\ srcPos = Len(source) THEN "result" ELSE "read"
    /\ UNCHANGED <<T, hasher, log, fed, nResult, nInput, op, arg, text, out, readerVars>>

\* (variant: a read that did not fill the buffer ends the loop)
ReaderTest_short_read ==
    /\ pc = "test"
    /\ pc' = IF bytes_read < BufSize THEN "result" ELSE "read"
    /\ UNCHANGED <<T, hasher, log, fed, nResult, nInput, op, arg, text, out, readerVars>>

\* if bytes_read == 0 { break; }
ReaderTest ==
    /\ pc = "test"
    /\ pc' = IF bytes_read = 0 THEN "result" ELSE "read"
    /\ UNCHANGED <<T, hasher, log, fed, nResult, nInput, op, arg, text, out, readerVars>>

\* Ok(hasher.result())
ReaderResult ==
    /\ pc = "result"
    /\ pc' = "done"
    /\ LET r == result(T, hasher)
       IN  /\ out' = Ok(r.out)
           /\ hasher' = r.h
    /\ fed' = log
    /\ log' = <<>>
    /\ nResult' = nResult + 1
    /\ UNCHANGED <<T, nInput, op, arg, text, readerVars>>

\* the caller takes the io::Result; hasher and buffer are gone
ReaderReturn ==
    /\ pc = "done"
    /\ pc' = "idle"
    /\ hasher' = Default
    /\ log' = <<>>
    /\ fed' = <<>>
    /\ nResult' = 0
    /\ nInput' = 0
    /\ source' = <<>>
    /\ srcPos' = 0
    /\ buffer' = <<>>
    /\ bytes_read' = 0
    /\ op' = "none"
    /\ out' = NoOut
    /\ UNCHANGED <<T, arg, text>>

Next ==
    \/ New
    \/ \E buf \in InputBufs : Input(buf)
    \/ Result
    \/ Drop
    \/ \E data \in Datas : Digest(data)
    \/ \E str \in Texts : InputStr(str)
    \/ Forget
    \/ \E src \in Sources : ReaderStart(src)
    \/ ReaderRead
    \/ ReaderInput
    \/ ReaderTest
    \/ ReaderResult
    \/ ReaderReturn

Spec == Init /\ [][Next]_vars

\* One call of digest_reader, from the call to its return. The function is
\* sequential and synchronous: each of its steps is taken when it is the
\* next one.
ReaderNext ==
    \/ \E src \in ShapeSources : ReaderStart(src)
    \/ ReaderRead
    \/ ReaderInput
    \/ ReaderTest
    \/ ReaderResult

LiveSpec ==
    /\ Init
    /\ [][ReaderNext]_vars
    /\ WF_vars(ReaderRead)
    /\ WF_vars(ReaderInput)
    /\ WF_vars(ReaderTest)
    /\ WF_vars(ReaderResult)

\* ============================================================== properties
InReader == op = "digest_reader" /\ pc \in {"read", "input", "test", "result", "done"}

\* the chunks the first n reads of src delivered
Delivered(src, n) == [i \in 1..n |-> src[i].data]

IsZeroRead(r) == r.kind = "Ok" /\ Len(r.data) = 0
IsErrRead(r) == r.kind = "Err"

\* a source of non-empty chunks, then one zero-length read, that never fails
WellBehaved(src) ==
    /\ Len(src) >= 1
    /\ IsZeroRead(src[Len(src)])
    /\ \A i \in 1..(Len(src) - 1) : src[i].kind = "Ok" /\ Len(src[i].data) \in 1..BufSize

\* UTF-8 by its table: the length class of a scalar value, the marker of the
\* lead byte, six payload bits in each continuation byte
Utf8Len(c) == IF c < 128 THEN 1 ELSE IF c < 2048 THEN 2 ELSE IF c < 65536 THEN 3 ELSE 4
Utf8Lead(n) == CASE n = 1 -> 0 [] n = 2 -> 192 [] n = 3 -> 224 [] n = 4 -> 240
utf8_char(c) ==
    LET n == Utf8Len(c)
    IN  [i \in 1..n |-> IF i = 1 THEN Utf8Lead(n) + (c \div (64 ^ (n - 1)))
                        ELSE 128 + ((c \div (64 ^ (n - i))) % 64)]
utf8_bytes(str) == Concat([i \in 1..Len(str) |-> utf8_char(str[i])])

\* C1: new(), one input(data) with the whole data, then result() on that
\* hasher returns exactly what the one-shot digest(data) returns, and a
\* digest(data) call returns what result() does after that one input.
C1_DigestIsNewInputResult ==
    /\ (pc = "hasher" /\ op = "result" /\ nResult = 1 /\ Len(fed) = 1)
           => out = Ok(digest(T, fed[1]))
    /\ op = "digest" => out = Ok(result(T, input(new, arg)).out)

C1_Witness ==
    /\ pc = "hasher" /\ op = "result" /\ nResult = 1
    /\ fed = << <<0, 255>> >>
    /\ out.kind = "Ok"

\* C2: for a source of non-empty chunks ended by a zero-length read,
\* digest_reader returns Ok with the digest of the chunks concatenated in
\* read order.
C2_ReaderIsDigestOfConcat ==
    (InReader /\ pc = "done" /\ WellBehaved(source))
        => out = Ok(digest(T, Concat(Delivered(source, Len(source)))))

C2_Witness ==
    /\ InReader /\ pc = "done"
    /\ source = <<OkRead(<<97, 98>>), OkRead(<<99, 100>>), OkRead(<<>>)>>
    /\ out = Ok(digest(T, <<97, 98, 99, 100>>))

\* C3: a failed read ends digest_reader at once: it returns that error and no
\* output, reads no more, has made one input per earlier read and no more,
\* and result was never called.
C3_ReadFailureAborts ==
    InReader =>
        \A k \in 1..srcPos :
            IsErrRead(source[k]) =>
                /\ pc = "done"
                /\ out = Err(source[k].err)
                /\ srcPos = k
                /\ log = Delivered(source, k - 1)
                /\ nInput = k - 1
                /\ nResult = 0

C3_Witness ==
    /\ InReader /\ pc = "done"
    /\ source = <<OkRead(<<97, 98>>), ErrRead("Interrupted"), OkRead(<<>>)>>
    /\ out = Err("Interrupted")

\* C4: result() leaves the hasher in its initial state, so that a following
\* input(x); result() on the same instance returns digest(x).
C4_ResultResets ==
    /\ (pc = "hasher" /\ nResult >= 1 /\ log = <<>>) => hasher = new
    /\ (pc = "hasher" /\ op = "result" /\ nResult = 2 /\ Len(fed) = 1)
           => out = Ok(digest(T, fed[1]))

\* C5: input_str(s) returns the digest of the UTF-8 encoding of s.
C5_InputStrIsDigestOfUtf8 ==
    op = "input_str" => out = Ok(digest(T, utf8_bytes(text)))

C5_Witness ==
    /\ op = "input_str"
    /\ text = <<8364, 128512>>
    /\ out.kind = "Ok"

\* C6: every output (of result, digest, input_str and a successful
\* digest_reader) has exactly output_size() bytes, whatever was fed.
C6_OutputLength ==
    out.kind = "Ok" => Len(out.val) = output_size(T)

C6_Witness ==
    /\ pc = "hasher" /\ op = "result" /\ nInput = 2
    /\ out.kind = "Ok"
    /\ Len(out.val) = 4

\* C7: result() of a fresh hasher that was given no input at all returns
\* what digest of the empty slice returns, and a digest call on the empty
\* slice returns what result() of a fresh hasher does.
C7_EmptyDigest ==
    /\ (pc = "hasher" /\ op = "result" /\ nResult = 1 /\ nInput = 0)
           => out = Ok(digest(T, <<>>))
    /\ (op = "digest" /\ arg = <<>>) => out = Ok(result(T, new).out)

C7_Witness ==
    /\ pc = "hasher" /\ op = "result" /\ nResult = 1 /\ nInput = 0
    /\ out.kind = "Ok"

\* C8: in digest_reader each successful read is followed, before the next
\* read, by exactly one input of exactly the bytes that read delivered, the
\* zero-byte read included: n non-empty reads make n + 1 inputs, the last
\* one empty.
C8_OneInputPerRead ==
    InReader =>
        LET inputs == IF pc = "done" /\ out.kind = "Ok" THEN fed ELSE log
            reads  == IF pc = "input" \/ (pc = "done" /\ out.kind = "Err")
                      THEN srcPos - 1 ELSE srcPos
        IN  /\ inputs = Delivered(source, reads)
            /\ nInput = reads
            /\ \A i \in 1..Len(inputs) : Len(inputs[i]) <= BufSize
            /\ (pc = "done" /\ out.kind = "Ok") =>
                   /\ Len(inputs[Len(inputs)]) = 0
                   /\ Cardinality({i \in 1..srcPos : Len(source[i].data) > 0}) + 1
                          = Len(inputs)

C8_Witness ==
    /\ InReader /\ pc = "done" /\ out.kind = "Ok"
    /\ source = <<OkRead(Full(120)), OkRead(<<97, 98>>), OkRead(<<>>)>>
    /\ fed = <<Full(120), <<97, 98>>, <<>> >>

\* C9: the first zero-byte read ends the stream: digest_reader never reads
\* after it and returns Ok with the digest of the bytes delivered before it,
\* whatever the source would have delivered later.
C9_FirstZeroReadEnds ==
    InReader =>
        \A k \in 1..srcPos :
            IsZeroRead(source[k]) =>
                /\ srcPos = k
                /\ pc = "done" => out = Ok(digest(T, Concat(Delivered(source, k - 1))))

C9_Witness ==
    /\ InReader /\ pc = "done"
    /\ source = <<OkRead(<<97, 98>>), OkRead(<<>>), OkRead(<<99, 100>>)>>
    /\ srcPos = 2
    /\ out = Ok(digest(T, <<97, 98>>))

\* C10: digest_reader returns only after a zero-byte read (Ok, result called
\* once, after every input) or a failed read (Err), never on a non-empty
\* read; and it does return once the source delivers a zero-byte read or
\* fails.
ExitOnlyOnZeroOrError ==
    (InReader /\ pc = "done") =>
        /\ srcPos >= 1
        /\ \A i \in 1..(srcPos - 1) : source[i].kind = "Ok" /\ Len(source[i].data) > 0
        /\ \/ IsZeroRead(source[srcPos]) /\ out.kind = "Ok" /\ nResult = 1
                  /\ log = <<>> /\ Len(fed) = srcPos
           \/ IsErrRead(source[srcPos]) /\ out.kind = "Err" /\ nResult = 0

Terminates(src) == \E i \in 1..Len(src) : IsZeroRead(src[i]) \/ IsErrRead(src[i])

C10_ExitsAndTermination ==
    /\ []ExitOnlyOnZeroOrError
    /\ (InReader /\ Terminates(source)) ~> (pc = "done")

C10_Witness ==
    /\ InReader /\ pc = "done" /\ out.kind = "Ok"
    /\ source = <<OkRead(<<97, 98>>), OkRead(Full(120)), OkRead(<<>>)>>
    /\ nResult = 1

====
